---- MODULE Spec2Model ----
(***************************************************************************)
(* Model of dbt_checkpoint/check_column_name_contract.py: the hook's main  *)
(* (load manifest, load catalog, run the contract check, track, exit) and  *)
(* the sweep of check_column_name_contract over the in-scope columns.      *)
(*                                                                         *)
(* Strings are sequences of one-character strings, so that splitting,      *)
(* lower-casing and prefix matching are computed character by character.   *)
(* Catalogs are well formed (every node carries a "columns" mapping and    *)
(* every column a name and a type), as dbt writes them.                    *)
(***************************************************************************)
EXTENDS Integers, Sequences, FiniteSets, TLC

\* ---------------------------------------------------------------- bounds
MaxModels == 2      \* most nodes in a catalog
MaxCols == 2        \* most columns in a catalog, over all its nodes
MaxLen == 4         \* longest dtype / col_name_ignore string that is split

\* ----------------------------------------------------------- characters
Letters == {"a", "A"}
Alphabet == Letters \cup {",", "|", " "}

\* str.lower() on one character
LowerChar(c) ==
  CASE c = "A" -> "a"
    [] c = "B" -> "b"
    [] c = "X" -> "x"
    [] c = "Y" -> "y"
    [] OTHER -> c

\* str.upper() on one character
UpperChar(c) ==
  CASE c = "a" -> "A"
    [] c = "b" -> "B"
    [] c = "x" -> "X"
    [] c = "y" -> "Y"
    [] OTHER -> c

lower(s) == [i \in 1..Len(s) |-> LowerChar(s[i])]
upper(s) == [i \in 1..Len(s) |-> UpperChar(s[i])]

\* x in list
InList(x, list) == \E k \in 1..Len(list) : list[k] = x

\* ------------------------------------------------------------- re.split
\* the lookahead dropped: a space always splits
AlwaysNoCommaSpaceFrom(s, i) == TRUE

\* (?!.*?, ) at position i: no ", " starts at or after position i
NoCommaSpaceFrom(s, i) ==
  ~ \E j \in i..(Len(s) - 1) : s[j] = "," /\ s[j + 1] = " "

\* Length of the delimiter r', | (?!.*?, )|,|\|' matches at position i of s
\* (alternatives tried in order), 0 when none matches there.
DelimLen(s, i) ==
  IF s[i] = "," /\ i < Len(s) /\ s[i + 1] = " " THEN 2
  ELSE IF s[i] = " " /\ NoCommaSpaceFrom(s, i + 1) THEN 1
  ELSE IF s[i] = "," THEN 1
  ELSE IF s[i] = "|" THEN 1
  ELSE 0

RECURSIVE SplitFrom(_, _, _)
\* re.split scanning s from position i, cur being the token under way
SplitFrom(s, i, cur) ==
  IF i > Len(s) THEN <<cur>>
  ELSE IF DelimLen(s, i) > 0
       THEN <<cur>> \o SplitFrom(s, i + DelimLen(s, i), <<>>)
       ELSE SplitFrom(s, i + 1, Append(cur, s[i]))

re_split(s) == SplitFrom(s, 1, <<>>)

\* lines 32-33 / 35-36: split, then lower-case every token
normalize(s) == [k \in 1..Len(re_split(s)) |-> lower(re_split(s)[k])]

\* ------------------------------------------------------------- re.match
\* a match anchored at both ends
re_fullmatch(pattern, name) ==
  /\ Len(pattern) = Len(name)
  /\ \A i \in 1..Len(pattern) : LowerChar(pattern[i]) = LowerChar(name[i])

\* re.match(pattern, col_name, re.IGNORECASE) for a literal pattern:
\* anchored at the start of the name, not at its end, case-insensitive
re_match(pattern, name) ==
  /\ Len(pattern) <= Len(name)
  /\ \A i \in 1..Len(pattern) : LowerChar(pattern[i]) = LowerChar(name[i])

\* ---------------------------------------------------------------- state
VARIABLES
  args,             \* the parsed arguments (or the parameters of a direct call)
  manifest,         \* "unread" | "loaded" | "failed"
  catalog_state,    \* "unread" | "loaded" | "failed"
  catalog,          \* the catalog's nodes in iteration order, <<>> until loaded
  pc,               \* "load_manifest" | "load_catalog" | "call" | "sweep" |
                    \* "returned" | "tracked" | "exit"
  status_code,      \* the failure flag of check_column_name_contract
  models,           \* the in-scope nodes, in iteration order
  dtype,            \* the normalised type list
  dtype_upper,      \* its upper-cased copy, for display
  col_name_ignore,  \* the normalised ignore list
  mi,               \* position of the outer for loop in models
  ci,               \* position of the inner for loop in the node's columns
  stdout,           \* the lines written so far
  hook_properties,  \* what check_column_name_contract returned, status -1 before
  calls,            \* how many times check_column_name_contract was entered
  events,           \* the events passed to track_hook_event
  exit_code         \* what main returned, -1 while it runs

vars == <<args, manifest, catalog_state, catalog, pc, status_code, models, dtype, dtype_upper,
          col_name_ignore, mi, ci, stdout, hook_properties, calls, events,
          exit_code>>

\* ---------------------------------------------------------------- inputs
ModelIds == <<"m1", "m2", "m3", "m4">>

ColumnNames == {<<"A", "b">>, <<"b">>}
ColumnTypes == {<<"X">>, <<"y">>}
Columns == [name : ColumnNames, type : ColumnTypes]

\* the column lists of at most n columns
ColumnLists(n) == UNION {[1..k -> Columns] : k \in 0..n}

RECURSIVE NodeLists(_, _, _)
\* the lists of n nodes, the first with identifier ModelIds[first], holding
\* at most budget columns together
NodeLists(n, first, budget) ==
  IF n = 0 THEN {<<>>}
  ELSE UNION {
         {<<[id |-> ModelIds[first], columns |-> cs]>> \o rest :
            rest \in NodeLists(n - 1, first + 1, budget - Len(cs))} :
         cs \in ColumnLists(budget)}

Catalogs == UNION {NodeLists(n, 1, MaxCols) : n \in 0..MaxModels}

Path(stem, suffix) == [stem |-> stem, suffix |-> suffix]

PathLists == {
  <<Path("m1", ".sql")>>,
  <<Path("m1", ".sql"), Path("m2", ".sql")>>,
  <<Path("m1", ".yml"), Path("m2", ".sql")>>}

Patterns == {<<"A">>, <<"b">>}
DtypeStrings == {<<"X">>, <<"y", ",", " ", "x">>}
IgnoreStrings == {<<>>, <<"A", "b">>}

Args == [filenames : PathLists, pattern : Patterns, dtype : DtypeStrings,
         pattern_flg : BOOLEAN, col_name_ignore : IgnoreStrings]

\* every string over Alphabet of at most MaxLen characters
Strings == UNION {[1..n -> Alphabet] : n \in 0..MaxLen}

\* -------------------------------------------------- utils (collaborators)
\* a filter that lets .yml files through as well
SqlAndYmlExtensions == {".sql", ".yml"}

\* the extension filter check_column_name_contract passes to get_filenames
SqlExtensions == {".sql"}

\* get_filenames(paths, extensions).keys(): the stems of the paths whose
\* suffix is one of extensions
get_filenames(paths, extensions) ==
  {paths[i].stem : i \in {j \in 1..Len(paths) : paths[j].suffix \in extensions}}

\* get_models(catalog, filenames): the catalog's nodes whose identifier is
\* one of filenames, in the catalog's order
get_models(cat, filenames) ==
  SelectSeq(cat, LAMBDA node : node.id \in filenames)

\* ----------------------------------------------------------- diagnostics
TypeWithoutPattern(col_name, upper_list, pattern) ==
  <<"TypeWithoutPattern", col_name, upper_list, pattern>>

PatternWithoutType(col_name, pattern, col_type, upper_list) ==
  <<"PatternWithoutType", col_name, pattern, col_type, upper_list>>

\* ------------------------------------------------------------------ Init
Unstarted ==
  /\ manifest = "unread"
  /\ catalog_state = "unread"
  /\ catalog = <<>>
  /\ status_code = 0
  /\ models = <<>>
  /\ dtype = <<>>
  /\ dtype_upper = <<>>
  /\ col_name_ignore = <<>>
  /\ mi = 0
  /\ ci = 0
  /\ stdout = <<>>
  /\ hook_properties = [status_code |-> -1]
  /\ calls = 0
  /\ events = <<>>
  /\ exit_code = -1

\* main after parse_args
Init ==
  /\ args \in Args
  /\ pc = "load_manifest"
  /\ Unstarted

\* ------------------------------------------------------------------ main
\* lines 97-101
LoadManifest ==
  /\ pc = "load_manifest"
  /\ \E ok \in BOOLEAN :
       IF ok
       THEN /\ manifest' = "loaded"
            /\ pc' = "load_catalog"
            /\ UNCHANGED <<stdout, exit_code>>
       ELSE /\ manifest' = "failed"
            /\ stdout' = Append(stdout, <<"Unable to load manifest file">>)
            /\ exit_code' = 1
            /\ pc' = "exit"
  /\ UNCHANGED <<args, catalog_state, catalog, status_code, models, dtype, dtype_upper,
                 col_name_ignore, mi, ci, hook_properties, calls, events>>

\* lines 103-107
LoadCatalog ==
  /\ pc = "load_catalog"
  /\ \/ /\ catalog' \in Catalogs
        /\ catalog_state' = "loaded"
        /\ pc' = "call"
        /\ UNCHANGED <<stdout, exit_code>>
     \/ /\ catalog' = <<>>
        /\ catalog_state' = "failed"
        /\ stdout' = Append(stdout, <<"Unable to load catalog file">>)
        /\ exit_code' = 1
        /\ pc' = "exit"
  /\ UNCHANGED <<args, manifest, status_code, models, dtype, dtype_upper,
                 col_name_ignore, mi, ci, hook_properties, calls, events>>

\* ------------------------------------------- check_column_name_contract
\* lines 28-36: the flag, the in-scope models, the normalised lists
Enter ==
  /\ pc = "call"
  /\ calls' = calls + 1
  /\ status_code' = 0
  /\ models' = get_models(catalog, get_filenames(args.filenames, SqlExtensions))
  /\ dtype' = normalize(args.dtype)
  /\ dtype_upper' = [k \in 1..Len(normalize(args.dtype)) |->
                       upper(normalize(args.dtype)[k])]
  /\ col_name_ignore' = normalize(args.col_name_ignore)
  /\ mi' = 1
  /\ ci' = 1
  /\ pc' = "sweep"
  /\ UNCHANGED <<args, manifest, catalog_state, catalog, stdout, hook_properties, events,
                 exit_code>>

\* Verdict with pattern_flg suppressing the reverse direction too
VerdictFlagGatesReverse(col_name, col_type, types, ignore, pattern, pattern_flg) ==
  IF InList(col_type, types)
  THEN IF /\ ~ InList(col_name, ignore)
          /\ ~ re_match(pattern, col_name)
          /\ ~ pattern_flg
       THEN "TypeWithoutPattern"
       ELSE "ok"
  ELSE IF /\ ~ InList(col_name, ignore)
          /\ re_match(pattern, col_name)
          /\ ~ pattern_flg
       THEN "PatternWithoutType"
       ELSE "ok"

\* Verdict with the forward direction not consulting the ignore list
VerdictForwardNoIgnore(col_name, col_type, types, ignore, pattern, pattern_flg) ==
  IF InList(col_type, types)
  THEN IF ~ re_match(pattern, col_name) /\ ~ pattern_flg
       THEN "TypeWithoutPattern"
       ELSE "ok"
  ELSE IF ~ InList(col_name, ignore) /\ re_match(pattern, col_name)
       THEN "PatternWithoutType"
       ELSE "ok"

\* Verdict with the reverse direction not consulting the ignore list
VerdictReverseNoIgnore(col_name, col_type, types, ignore, pattern, pattern_flg) ==
  IF InList(col_type, types)
  THEN IF /\ ~ InList(col_name, ignore)
          /\ ~ re_match(pattern, col_name)
          /\ ~ pattern_flg
       THEN "TypeWithoutPattern"
       ELSE "ok"
  ELSE IF re_match(pattern, col_name)
       THEN "PatternWithoutType"
       ELSE "ok"

\* Verdict with the forward direction not consulting pattern_flg
VerdictForwardNoFlag(col_name, col_type, types, ignore, pattern, pattern_flg) ==
  IF InList(col_type, types)
  THEN IF ~ InList(col_name, ignore) /\ ~ re_match(pattern, col_name)
       THEN "TypeWithoutPattern"
       ELSE "ok"
  ELSE IF ~ InList(col_name, ignore) /\ re_match(pattern, col_name)
       THEN "PatternWithoutType"
       ELSE "ok"

\* lines 44-58: which diagnostic, if any, a column gets
Verdict(col_name, col_type, types, ignore, pattern, pattern_flg) ==
  IF InList(col_type, types)
  THEN IF /\ ~ InList(col_name, ignore)
          /\ ~ re_match(pattern, col_name)
          /\ ~ pattern_flg
       THEN "TypeWithoutPattern"
       ELSE "ok"
  ELSE IF ~ InList(col_name, ignore) /\ re_match(pattern, col_name)
       THEN "PatternWithoutType"
       ELSE "ok"

\* CheckColumn reporting the first violation only
CheckColumnFirstOnly ==
  /\ pc = "sweep"
  /\ mi <= Len(models)
  /\ ci <= Len(models[mi].columns)
  /\ LET col == models[mi].columns[ci]
         col_name == lower(col.name)
         col_type == lower(col.type)
         verdict == Verdict(col_name, col_type, dtype, col_name_ignore,
                            args.pattern, args.pattern_flg)
     IN  CASE verdict = "TypeWithoutPattern" /\ status_code = 0 ->
                /\ status_code' = 1
                /\ stdout' = Append(stdout,
                     TypeWithoutPattern(col_name, dtype_upper, args.pattern))
           [] verdict = "PatternWithoutType" /\ status_code = 0 ->
                /\ status_code' = 1
                /\ stdout' = Append(stdout,
                     PatternWithoutType(col_name, args.pattern, col_type,
                                        dtype_upper))
           [] OTHER -> UNCHANGED <<status_code, stdout>>
  /\ ci' = ci + 1
  /\ UNCHANGED <<args, manifest, catalog_state, catalog, pc, models, dtype,
                 dtype_upper, col_name_ignore, mi, hook_properties, calls,
                 events, exit_code>>

\* CheckColumn with the reverse branch writing its line without setting the flag
CheckColumnReverseNoFlag ==
  /\ pc = "sweep"
  /\ mi <= Len(models)
  /\ ci <= Len(models[mi].columns)
  /\ LET col == models[mi].columns[ci]
         col_name == lower(col.name)
         col_type == lower(col.type)
         verdict == Verdict(col_name, col_type, dtype, col_name_ignore,
                            args.pattern, args.pattern_flg)
     IN  CASE verdict = "TypeWithoutPattern" ->
                /\ status_code' = 1
                /\ stdout' = Append(stdout,
                     TypeWithoutPattern(col_name, dtype_upper, args.pattern))
           [] verdict = "PatternWithoutType" ->
                /\ status_code' = status_code
                /\ stdout' = Append(stdout,
                     PatternWithoutType(col_name, args.pattern, col_type,
                                        dtype_upper))
           [] OTHER -> UNCHANGED <<status_code, stdout>>
  /\ ci' = ci + 1
  /\ UNCHANGED <<args, manifest, catalog_state, catalog, pc, models, dtype,
                 dtype_upper, col_name_ignore, mi, hook_properties, calls,
                 events, exit_code>>

\* lines 39-58: one iteration of the inner loop
CheckColumn ==
  /\ pc = "sweep"
  /\ mi <= Len(models)
  /\ ci <= Len(models[mi].columns)
  /\ LET col == models[mi].columns[ci]
         col_name == lower(col.name)
         col_type == lower(col.type)
         verdict == Verdict(col_name, col_type, dtype, col_name_ignore,
                            args.pattern, args.pattern_flg)
     IN  CASE verdict = "TypeWithoutPattern" ->
                /\ status_code' = 1
                /\ stdout' = Append(stdout,
                     TypeWithoutPattern(col_name, dtype_upper, args.pattern))
           [] verdict = "PatternWithoutType" ->
                /\ status_code' = 1
                /\ stdout' = Append(stdout,
                     PatternWithoutType(col_name, args.pattern, col_type,
                                        dtype_upper))
           [] OTHER -> UNCHANGED <<status_code, stdout>>
  /\ ci' = ci + 1
  /\ UNCHANGED <<args, manifest, catalog_state, catalog, pc, models, dtype,
                 dtype_upper, col_name_ignore, mi, hook_properties, calls,
                 events, exit_code>>

\* line 38: the inner loop is exhausted, the outer loop takes the next model
NextModel ==
  /\ pc = "sweep"
  /\ mi <= Len(models)
  /\ ci > Len(models[mi].columns)
  /\ mi' = mi + 1
  /\ ci' = 1
  /\ UNCHANGED <<args, manifest, catalog_state, catalog, pc, status_code, models, dtype,
                 dtype_upper, col_name_ignore, stdout, hook_properties, calls,
                 events, exit_code>>

\* line 60
Return ==
  /\ pc = "sweep"
  /\ mi > Len(models)
  /\ hook_properties' = [status_code |-> status_code]
  /\ pc' = "returned"
  /\ UNCHANGED <<args, manifest, catalog_state, catalog, status_code, models, dtype,
                 dtype_upper, col_name_ignore, mi, ci, stdout, calls, events,
                 exit_code>>

\* ------------------------------------------------------------ main, end
\* Track reporting success whatever the check returned
TrackAlwaysZero ==
  /\ pc = "returned"
  /\ events' = Append(events, [event_name |-> "Hook Executed", status |-> 0])
  /\ pc' = "tracked"
  /\ UNCHANGED <<args, manifest, catalog_state, catalog, status_code, models,
                 dtype, dtype_upper, col_name_ignore, mi, ci, stdout,
                 hook_properties, calls, exit_code>>

\* lines 123-134
Track ==
  /\ pc = "returned"
  /\ events' = Append(events, [event_name |-> "Hook Executed",
                               status |-> hook_properties.status_code])
  /\ pc' = "tracked"
  /\ UNCHANGED <<args, manifest, catalog_state, catalog, status_code, models, dtype,
                 dtype_upper, col_name_ignore, mi, ci, stdout, hook_properties,
                 calls, exit_code>>

\* line 136
Exit ==
  /\ pc = "tracked"
  /\ exit_code' = hook_properties.status_code
  /\ pc' = "exit"
  /\ UNCHANGED <<args, manifest, catalog_state, catalog, status_code, models, dtype,
                 dtype_upper, col_name_ignore, mi, ci, stdout, hook_properties,
                 calls, events>>

Next ==
  \/ LoadManifest
  \/ LoadCatalog
  \/ Enter
  \/ CheckColumn
  \/ NextModel
  \/ Return
  \/ Track
  \/ Exit

Spec == Init /\ [][Next]_vars

\* ------------------------------------------ the normaliser on its own
\* check_column_name_contract called directly, with an empty catalog, on
\* every dtype string (col_name_ignore at its default) and on every
\* col_name_ignore string
InitSplit ==
  /\ \E s \in Strings :
       \/ args = [filenames |-> <<>>, pattern |-> <<"a">>, dtype |-> s,
                  pattern_flg |-> FALSE, col_name_ignore |-> <<>>]
       \/ args = [filenames |-> <<>>, pattern |-> <<"a">>, dtype |-> <<"a">>,
                  pattern_flg |-> FALSE, col_name_ignore |-> s]
  /\ pc = "call"
  /\ Unstarted

NextSplit ==
  \/ Enter
  \/ Return

SpecSplit == InitSplit /\ [][NextSplit]_vars

\* =============================================================== claims
\* What the claims speak of, stated from the inputs (args, catalog) and the
\* normalised lists, independently of the sweep's own operators.

\* check_column_name_contract has returned
Returned == pc \in {"returned", "tracked", "exit"} /\ calls = 1

\* the lists are normalised and the sweep is under way or over
Entered == pc = "sweep" \/ Returned

\* the model identifiers derived from the supplied paths
PathStems ==
  {args.filenames[i].stem :
     i \in {j \in 1..Len(args.filenames) : args.filenames[j].suffix = ".sql"}}

CatalogIds == {catalog[i].id : i \in 1..Len(catalog)}

ScopeIds == CatalogIds \cap PathStems

\* the columns of the catalog, as <<node, column>> positions
AllCols ==
  UNION {{<<i, j>> : j \in 1..Len(catalog[i].columns)} : i \in 1..Len(catalog)}

ScopeCols == {p \in AllCols : catalog[p[1]].id \in ScopeIds}

NameAt(p) == lower(catalog[p[1]].columns[p[2]].name)
TypeAt(p) == lower(catalog[p[1]].columns[p[2]].type)

TypeIn(p) == TypeAt(p) \in {dtype[k] : k \in 1..Len(dtype)}
Ignored(p) == NameAt(p) \in {col_name_ignore[k] : k \in 1..Len(col_name_ignore)}

\* the name matches the pattern case-insensitively from its start
Matches(p) ==
  /\ Len(args.pattern) <= Len(NameAt(p))
  /\ SubSeq(NameAt(p), 1, Len(args.pattern)) = lower(args.pattern)

ForwardViolation(p) ==
  TypeIn(p) /\ ~ args.pattern_flg /\ ~ Ignored(p) /\ ~ Matches(p)

ReverseViolation(p) == ~ TypeIn(p) /\ ~ Ignored(p) /\ Matches(p)

Violating(p) == ForwardViolation(p) \/ ReverseViolation(p)

\* the diagnostic lines among the lines written
Diagnostics ==
  SelectSeq(stdout,
    LAMBDA line : line[1] \in {"TypeWithoutPattern", "PatternWithoutType"})

\* the sweep stands just after column c = models[mi].columns[ci - 1]
JustChecked == pc = "sweep" /\ mi <= Len(models) /\ ci > 1
LastCol == models[mi].columns[ci - 1]
LastName == lower(LastCol.name)
LastType == lower(LastCol.type)

\* the sweep stands before a column
AtColumn == pc = "sweep" /\ mi <= Len(models) /\ ci <= Len(models[mi].columns)
ThisCol == models[mi].columns[ci]
ThisName == lower(ThisCol.name)
ThisType == lower(ThisCol.type)

InDtype(t) == t \in {dtype[k] : k \in 1..Len(dtype)}
InIgnore(n) == n \in {col_name_ignore[k] : k \in 1..Len(col_name_ignore)}
NameMatches(n) ==
  Len(args.pattern) <= Len(n) /\ SubSeq(n, 1, Len(args.pattern)) = lower(args.pattern)

\* C1: forward check. When every in-scope column has a type in dtype_list and
\* pattern_flg is false, the returned status_code is 1 iff some in-scope
\* column has a name that is not ignored and does not match the pattern, and
\* is 0 otherwise.
C1_ForwardCheck ==
  (Returned /\ ~ args.pattern_flg /\ \A p \in ScopeCols : TypeIn(p))
    => /\ hook_properties.status_code \in {0, 1}
       /\ hook_properties.status_code = 1
            <=> \E p \in ScopeCols : ~ Ignored(p) /\ ~ Matches(p)

\* a forward-only run that fails although one of its columns is fine
C1_Witness ==
  /\ Returned /\ ~ args.pattern_flg /\ \A p \in ScopeCols : TypeIn(p)
  /\ hook_properties.status_code = 1
  /\ \E p \in ScopeCols : Matches(p)
  /\ \E p \in ScopeCols : ~ Ignored(p) /\ ~ Matches(p)

\* C2: reverse check. When every in-scope column has a type outside
\* dtype_list, the returned status_code is 1 iff some in-scope column has a
\* name that matches the pattern and is not ignored, whatever pattern_flg is.
C2_ReverseCheck ==
  (Returned /\ \A p \in ScopeCols : ~ TypeIn(p))
    => /\ hook_properties.status_code \in {0, 1}
       /\ hook_properties.status_code = 1
            <=> \E p \in ScopeCols : Matches(p) /\ ~ Ignored(p)

\* a reverse-only run that fails with pattern_flg set
C2_Witness ==
  /\ Returned /\ args.pattern_flg
  /\ ScopeCols # {} /\ \A p \in ScopeCols : ~ TypeIn(p)
  /\ hook_properties.status_code = 1

\* C3: checking a column whose lower-cased name is in ignore_list writes no
\* line and leaves status_code as it was, whatever its type, the pattern and
\* pattern_flg.
C3_IgnoredNeverViolates ==
  [][(AtColumn /\ InIgnore(ThisName))
       => (stdout' = stdout /\ status_code' = status_code)]_vars

\* ignored columns of both kinds have been passed in silence: one whose type
\* is listed and whose name does not match, or one whose type is not listed
\* and whose name matches
C3_Witness ==
  /\ JustChecked /\ InIgnore(LastName) /\ ~ args.pattern_flg
  /\ InDtype(LastType) <=> ~ NameMatches(LastName)
  /\ status_code = 0 /\ stdout = <<>>

\* C4: with pattern_flg true, checking a column whose type is in dtype_list
\* writes no line, forward or reverse, and leaves status_code as it was.
C4_FlagSuppressesForward ==
  [][(AtColumn /\ args.pattern_flg /\ InDtype(ThisType))
       => (stdout' = stdout /\ status_code' = status_code)]_vars

\* with the flag set, a listed-type column whose name does not match and is
\* not ignored has been passed in silence
C4_Witness ==
  /\ JustChecked /\ args.pattern_flg /\ InDtype(LastType)
  /\ ~ NameMatches(LastName) /\ ~ InIgnore(LastName)
  /\ status_code = 0 /\ stdout = <<>>

\* C5: after a run the number of diagnostic lines is the number of violating
\* in-scope columns, each violating column has its line, and no line was
\* written for anything else.
C5_Exhaustive ==
  Returned
    => /\ Len(Diagnostics) = Cardinality({p \in ScopeCols : Violating(p)})
       /\ Diagnostics = stdout
       /\ \A p \in ScopeCols :
            /\ ForwardViolation(p) =>
                 \E k \in 1..Len(stdout) :
                   stdout[k][1] = "TypeWithoutPattern" /\ stdout[k][2] = NameAt(p)
            /\ ReverseViolation(p) =>
                 \E k \in 1..Len(stdout) :
                   stdout[k][1] = "PatternWithoutType" /\ stdout[k][2] = NameAt(p)

\* two models, each with one violating column, gave two lines
C5_Witness ==
  /\ Returned /\ Len(stdout) = 2
  /\ \E p, q \in ScopeCols : p[1] # q[1] /\ Violating(p) /\ Violating(q)

\* C6: the models whose columns are inspected are exactly those whose
\* identifier is both in the catalog and derived from a supplied .sql path;
\* every line written and a status_code of 1 come from a column of such a
\* model, never from a column outside the intersection.
C6_Scope ==
  /\ Entered => {models[i].id : i \in 1..Len(models)} = ScopeIds
  /\ Entered => \A i \in 1..Len(models) :
                  \E k \in 1..Len(catalog) : catalog[k] = models[i]
  /\ AtColumn => models[mi].id \in ScopeIds
  /\ Returned =>
       /\ hook_properties.status_code = 1 => \E p \in ScopeCols : Violating(p)
       /\ Len(stdout) <= Cardinality({p \in ScopeCols : Violating(p)})

\* a violating column of a model outside the intersection went unreported
C6_Witness ==
  /\ Returned /\ hook_properties.status_code = 0 /\ stdout = <<>>
  /\ \E p \in AllCols \ ScopeCols : Violating(p)
  /\ ScopeCols # {}

\* C7 as stated: a column whose name is ignored and matches the pattern and
\* whose type is outside dtype_list still gets a PatternWithoutType line and
\* makes status_code 1.
C7_IgnoredStillReverseViolates ==
  (Returned /\ \E p \in ScopeCols : Ignored(p) /\ Matches(p) /\ ~ TypeIn(p))
    => /\ hook_properties.status_code = 1
       /\ \E k \in 1..Len(stdout) : stdout[k][1] = "PatternWithoutType"

\* C7 amended: the ignore list exempts a column from the reverse check as
\* well. No PatternWithoutType line ever names an ignored column, and a run
\* whose in-scope columns are all ignored, pattern-matching and of a type
\* outside dtype_list returns 0 and writes nothing.
C7_IgnoredExemptFromReverse ==
  /\ Entered =>
       \A k \in 1..Len(stdout) :
         stdout[k][1] = "PatternWithoutType" => ~ InIgnore(stdout[k][2])
  /\ (Returned /\ \A p \in ScopeCols : Ignored(p) /\ Matches(p) /\ ~ TypeIn(p))
       => (hook_properties.status_code = 0 /\ stdout = <<>>)

\* an ignored, pattern-matching column of an unlisted type was swept and the
\* run returned 0
C7_Witness ==
  /\ Returned /\ hook_properties.status_code = 0
  /\ ScopeCols # {}
  /\ \A p \in ScopeCols : Ignored(p) /\ Matches(p) /\ ~ TypeIn(p)

\* C9: status_code is 0 or 1 throughout, is 1 exactly when a diagnostic line
\* has been written so far, never goes back from 1, and the status returned
\* is 0 iff no in-scope column violates the contract and 1 otherwise.
C9_StatusFlag ==
  /\ [](/\ status_code \in {0, 1}
        /\ status_code = 1 <=> Len(Diagnostics) > 0
        /\ Returned =>
             hook_properties.status_code =
               IF \E p \in ScopeCols : Violating(p) THEN 1 ELSE 0)
  /\ [][/\ status_code = 1 => status_code' = 1
        /\ status_code' # status_code => Len(stdout') = Len(stdout) + 1]_vars

\* the flag was raised by an earlier column and a later, valid column has
\* been checked since
C9_Witness ==
  /\ JustChecked /\ ci > 2 /\ status_code = 1 /\ Len(stdout) = 1
  /\ InDtype(LastType) /\ NameMatches(LastName)

\* C10: main loads the manifest before the catalog; if either load fails it
\* returns 1 without running the check and without a tracking event; if both
\* load it runs the check once, then emits one tracking event whose status is
\* the check's status_code, then returns that status_code.
C10_MainOutcome ==
  /\ catalog_state # "unread" => manifest = "loaded"
  /\ calls > 0 => (manifest = "loaded" /\ catalog_state = "loaded")
  /\ calls <= 1 /\ Len(events) <= 1
  /\ events # <<>> => Returned
  /\ exit_code # -1 <=> pc = "exit"
  /\ (pc = "exit" /\ (manifest = "failed" \/ catalog_state = "failed"))
       => (exit_code = 1 /\ calls = 0 /\ events = <<>>)
  /\ (pc = "exit" /\ manifest = "loaded" /\ catalog_state = "loaded")
       => /\ calls = 1
          /\ Len(events) = 1
          /\ events[1].status = status_code
          /\ exit_code = status_code
          /\ hook_properties.status_code = status_code

\* main has exited with 1 after a check that found a violation
C10_Witness ==
  /\ pc = "exit" /\ manifest = "loaded" /\ catalog_state = "loaded"
  /\ exit_code = 1 /\ Len(events) = 1 /\ Len(stdout) > 0

\* ------------------------------------------------ C8, under SpecSplit
\* position i of s is consumed as the second character of a ", " delimiter
AfterComma(s, i) == i > 1 /\ s[i - 1] = ","

\* a ", " pair lies wholly after position i of s
CommaSpaceAfter(s, i) ==
  \E j \in (i + 1)..(Len(s) - 1) : s[j] = "," /\ s[j + 1] = " "

\* the positions where a delimiter starts: every comma, every pipe, and a
\* space that follows no comma and has no ", " pair after it
DelimStarts(s) ==
  {i \in 1..Len(s) :
     \/ s[i] \in {",", "|"}
     \/ s[i] = " " /\ ~ AfterComma(s, i) /\ ~ CommaSpaceAfter(s, i)}

\* the positions where a delimiter starts as C8 states them: every comma,
\* every pipe, and a space only when the string holds no comma at all
DelimStartsAsStated(s) ==
  {i \in 1..Len(s) :
     \/ s[i] \in {",", "|"}
     \/ s[i] = " " /\ ~ \E j \in 1..Len(s) : s[j] = ","}

\* where the delimiter starting at i ends: a comma takes a following space
DelimEnd(s, i) ==
  IF s[i] = "," /\ i < Len(s) /\ s[i + 1] = " " THEN i + 1 ELSE i

\* the k-th smallest element of the set of positions D
Kth(D, k) == CHOOSE d \in D : Cardinality({e \in D : e < d}) = k - 1

\* the lower-cased tokens of s cut at the delimiters starting in D, none
\* dropped
TokensCutAt(s, D) ==
  [k \in 1..(Cardinality(D) + 1) |->
     lower(SubSeq(s,
                  IF k = 1 THEN 1 ELSE DelimEnd(s, Kth(D, k - 1)) + 1,
                  IF k = Cardinality(D) + 1 THEN Len(s) ELSE Kth(D, k) - 1))]

\* C8 as stated: the token lists equal the lower-cased result of splitting on
\* ",", ", " and "|", and on a space only when the string contains no comma
\* anywhere; the empty string yields the single empty token.
C8_SplitAsStated ==
  Entered =>
    /\ dtype = TokensCutAt(args.dtype, DelimStartsAsStated(args.dtype))
    /\ col_name_ignore =
         TokensCutAt(args.col_name_ignore,
                     DelimStartsAsStated(args.col_name_ignore))

\* C8 amended: the token lists equal the lower-cased result of splitting on
\* ",", ", " and "|", and on a space exactly when no ", " pair occurs after
\* it in the string (a space right after a comma belongs to that comma's
\* delimiter); no token is dropped and the empty string yields the single
\* empty token.
C8_Split ==
  Entered =>
    /\ dtype = TokensCutAt(args.dtype, DelimStarts(args.dtype))
    /\ col_name_ignore =
         TokensCutAt(args.col_name_ignore, DelimStarts(args.col_name_ignore))
    /\ args.dtype = <<>> => dtype = << <<>> >>
    /\ args.col_name_ignore = <<>> => col_name_ignore = << <<>> >>
    /\ Len(dtype) = Cardinality(DelimStarts(args.dtype)) + 1

\* a string holding a comma was split at a space, and another string kept a
\* space because a ", " pair follows it
C8_Witness ==
  /\ Entered
  /\ \/ /\ \E j \in 1..Len(args.dtype) : args.dtype[j] = ","
        /\ \E i \in DelimStarts(args.dtype) : args.dtype[i] = " "
        /\ Len(dtype) = 3
     \/ /\ args.dtype = <<"A", " ", ",", " ">>
        /\ dtype = << <<"a", " ">>, <<>> >>

====
